---- MODULE Spec2Model ----
(***************************************************************************)
(* Model of LLMAtToolPlugin (src/main.py): the reply rewriter              *)
(* process_at_tags with its two regular expressions, the roster tool       *)
(* get_group_members and the prompt hook inject_at_prompt.                 *)
(*                                                                         *)
(* A text is a sequence of one-character strings.  Offsets are Python's:   *)
(* offset p (0-based) is element p + 1 of the sequence, and a span         *)
(* (start, end) covers offsets start .. end - 1.                           *)
(***************************************************************************)
EXTENDS Integers, Sequences, FiniteSets, TLC

VARIABLES result, pre, runs, size, event, req, api, ret, raised, calls, turns

vars == <<result, pre, runs, size, event, req, api, ret, raised, calls, turns>>

rewriteVars == <<result, pre, runs, size>>

rosterVars == <<event, req, api, ret, raised, calls, turns>>

(***************************************************************************)
(* Bounds                                                                  *)
(***************************************************************************)
\* fragments plus components of one reply
MaxSize == 8

\* invocations of process_at_tags on one reply
MaxRuns == 2

\* invocations of each of inject_at_prompt and get_group_members on one event
MaxCalls == 2

\* raw member records in one API answer
MaxMembers == 2

(***************************************************************************)
(* Characters and texts                                                    *)
(***************************************************************************)
ZWSP == "u200b"

Digits == {"1"}

AtPrefix == <<"[", "a", "t", ":">>

\* the pieces a reply text is written from
Fragments == { <<"[", "a", "t">>, <<":">>, <<"1">>, <<"]">> }

\* event.get_result() gives nothing
NoResult == [present |-> FALSE, chain |-> <<>>]

MessageEventResult(chain) == [present |-> TRUE, chain |-> chain]

CharAt(text, p) == IF p >= 0 /\ p < Len(text) THEN text[p + 1] ELSE ""

\* text[a:b]
Slice(text, a, b) == SubSeq(text, a + 1, b)

\* the literal \[at: at offset p
PrefixAt(text, p) == p >= 0 /\ p + 4 <= Len(text) /\ Slice(text, p, p + 4) = AtPrefix

\* "[at:" in text
ContainsPrefix(text) == \E p \in 0..Len(text) : PrefixAt(text, p)

RECURSIVE DigitRun(_, _)
\* \d* greedy: how many digits stand at offset p
DigitRun(text, p) ==
    IF CharAt(text, p) \in Digits THEN 1 + DigitRun(text, p + 1) ELSE 0

RECURSIVE NonCloseRun(_, _)
\* [^\]]* greedy: how many characters other than ] stand at offset p
NonCloseRun(text, p) ==
    IF p < Len(text) /\ CharAt(text, p) # "]" THEN 1 + NonCloseRun(text, p + 1) ELSE 0

\* \d+\] matches at offset p
DigitsThenClose(text, p) ==
    LET d == DigitRun(text, p) IN d >= 1 /\ CharAt(text, p + d) = "]"

\* valid_at_pattern with \d in place of \d+
valid_at_pattern_one_digit(text, p) ==
    IF PrefixAt(text, p) /\ CharAt(text, p + 4) \in Digits /\ CharAt(text, p + 5) = "]"
    THEN p + 6
    ELSE -1

\* valid_at_pattern tried at offset p: the end of the match, or -1
valid_at_pattern(text, p) ==
    IF PrefixAt(text, p) /\ DigitsThenClose(text, p + 4)
    THEN p + 4 + DigitRun(text, p + 4) + 1
    ELSE -1

\* invalid_at_pattern with [^\]]+ in place of [^\]]*
invalid_at_pattern_nonempty(text, p) ==
    IF PrefixAt(text, p) /\ ~DigitsThenClose(text, p + 4)
       /\ NonCloseRun(text, p + 4) >= 1
       /\ CharAt(text, p + 4 + NonCloseRun(text, p + 4)) = "]"
    THEN p + 4 + NonCloseRun(text, p + 4) + 1
    ELSE -1

\* invalid_at_pattern tried at offset p: the end of the match, or -1
invalid_at_pattern(text, p) ==
    IF PrefixAt(text, p) /\ ~DigitsThenClose(text, p + 4)
       /\ CharAt(text, p + 4 + NonCloseRun(text, p + 4)) = "]"
    THEN p + 4 + NonCloseRun(text, p + 4) + 1
    ELSE -1

RECURSIVE ValidFinditer(_, _)
\* valid_at_pattern.finditer(text) from offset p: leftmost, non-overlapping
ValidFinditer(text, p) ==
    IF p >= Len(text) THEN <<>>
    ELSE LET e == valid_at_pattern(text, p) IN
         IF e # -1
         THEN <<[start |-> p, end |-> e, group1 |-> Slice(text, p + 4, e - 1)]>>
              \o ValidFinditer(text, e)
         ELSE ValidFinditer(text, p + 1)

RECURSIVE InvalidFinditer(_, _)
\* the matches invalid_at_pattern.sub replaces, from offset p
InvalidFinditer(text, p) ==
    IF p >= Len(text) THEN <<>>
    ELSE LET e == invalid_at_pattern(text, p) IN
         IF e # -1
         THEN <<[start |-> p, end |-> e]>> \o InvalidFinditer(text, e)
         ELSE InvalidFinditer(text, p + 1)

RECURSIVE RemoveSpans(_, _, _)
RemoveSpans(text, spans, p) ==
    IF spans = <<>> THEN Slice(text, p, Len(text))
    ELSE Slice(text, p, Head(spans).start) \o RemoveSpans(text, Tail(spans), Head(spans).end)

\* invalid_at_pattern.sub("", text)
InvalidSub(text) == RemoveSpans(text, InvalidFinditer(text, 0), 0)

(***************************************************************************)
(* Message components                                                      *)
(***************************************************************************)
Plain(text) == [type |-> "Plain", text |-> text]

At(qq) == [type |-> "At", qq |-> qq]

Image == [type |-> "Image"]

Spacer == Plain(<<ZWSP>>)

\* the non-Plain components a reply can carry before it is rewritten
OpaqueComps == {Image}

(***************************************************************************)
(* process_at_tags                                                         *)
(***************************************************************************)
\* the quick check without the test for the prefix
has_tag_any_plain(chain) ==
    \E i \in 1..Len(chain) : chain[i].type = "Plain"

\* the quick check for a tag
has_tag(chain) ==
    \E i \in 1..Len(chain) : chain[i].type = "Plain" /\ ContainsPrefix(chain[i].text)

RECURSIVE EncodeMatches_mention_first(_, _, _)
\* the loop with the At put before the text that stood before the tag
EncodeMatches_mention_first(text, matches, last_idx) ==
    IF matches = <<>>
    THEN IF last_idx < Len(text) THEN <<Plain(Slice(text, last_idx, Len(text)))>> ELSE <<>>
    ELSE LET m == Head(matches) IN
         <<Spacer, At(m.group1), Spacer>>
         \o (IF m.start > last_idx THEN <<Plain(Slice(text, last_idx, m.start))>> ELSE <<>>)
         \o EncodeMatches_mention_first(text, Tail(matches), m.end)

RECURSIVE EncodeMatches_unguarded(_, _, _)
\* the loop without the tests that skip an empty text
EncodeMatches_unguarded(text, matches, last_idx) ==
    IF matches = <<>>
    THEN <<Plain(Slice(text, last_idx, Len(text)))>>
    ELSE LET m == Head(matches) IN
         <<Plain(Slice(text, last_idx, m.start))>>
         \o <<Spacer, At(m.group1), Spacer>>
         \o EncodeMatches_unguarded(text, Tail(matches), m.end)

RECURSIVE EncodeMatches(_, _, _)
\* the loop over the matches and the rest of the text after the last one
EncodeMatches(text, matches, last_idx) ==
    IF matches = <<>>
    THEN IF last_idx < Len(text) THEN <<Plain(Slice(text, last_idx, Len(text)))>> ELSE <<>>
    ELSE LET m == Head(matches) IN
         (IF m.start > last_idx THEN <<Plain(Slice(text, last_idx, m.start))>> ELSE <<>>)
         \o <<Spacer, At(m.group1), Spacer>>
         \o EncodeMatches(text, Tail(matches), m.end)

\* a Plain component without a valid tag contributes nothing
EncodePlain_tagged_only(comp) ==
    LET text == InvalidSub(comp.text) IN
    IF ValidFinditer(text, 0) = <<>> THEN <<>>
    ELSE EncodeMatches(text, ValidFinditer(text, 0), 0)

\* what one Plain component contributes to new_chain
EncodePlain(comp) ==
    LET text == InvalidSub(comp.text) IN
    EncodeMatches(text, ValidFinditer(text, 0), 0)

RECURSIVE NewChain(_)
\* the loop over result.chain
NewChain(chain) ==
    IF chain = <<>> THEN <<>>
    ELSE (IF Head(chain).type = "Plain" THEN EncodePlain(Head(chain)) ELSE <<Head(chain)>>)
         \o NewChain(Tail(chain))

\* the result the handler leaves
Rewritten(r) ==
    IF ~r.present \/ r.chain = <<>> THEN r
    ELSE IF ~has_tag(r.chain) THEN r
    ELSE MessageEventResult(NewChain(r.chain))

ProcessAtTags ==
    /\ runs < MaxRuns
    /\ pre' = result
    /\ result' = Rewritten(result)
    /\ runs' = runs + 1
    /\ UNCHANGED <<size, rosterVars>>

(***************************************************************************)
(* The reply the handler is given                                          *)
(***************************************************************************)
\* the LLM answers: the event gets a result with an empty chain
SetResult ==
    /\ runs = 0
    /\ ~result.present
    /\ result' = MessageEventResult(<<>>)
    /\ UNCHANGED <<pre, runs, size, rosterVars>>

\* a new component is put at the end of the chain
AppendComponent ==
    /\ runs = 0
    /\ result.present
    /\ size < MaxSize
    /\ \E comp \in OpaqueComps \cup {Plain(<<>>)} :
         result' = MessageEventResult(Append(result.chain, comp))
    /\ size' = size + 1
    /\ UNCHANGED <<pre, runs, rosterVars>>

\* the text of the last component grows by one fragment
AppendText ==
    /\ runs = 0
    /\ result.present
    /\ size < MaxSize
    /\ result.chain # <<>>
    /\ LET n == Len(result.chain) IN
       /\ result.chain[n].type = "Plain"
       /\ \E f \in Fragments :
            result' = MessageEventResult([result.chain EXCEPT ![n] = Plain(@.text \o f)])
    /\ size' = size + 1
    /\ UNCHANGED <<pre, runs, rosterVars>>


(***************************************************************************)
(* The platform and the event                                              *)
(***************************************************************************)
\* a key a raw member record does not have
Absent == "<absent>"

\* a raw member record without the key user_id has this in its place
NoUserId == -1

\* a raw member record that is no dict
Malformed == [malformed |-> TRUE]

RawMembers ==
    [user_id : {NoUserId, 1}, card : {Absent, "", "Bob"},
     nickname : {Absent, "bobby"}, role : {Absent, "admin"}]
    \cup {Malformed}

\* what call_action('get_group_member_list') does: raise, or answer None or a list
ApiKinds == {"raise", "None", "list"}

NoAnswer == [kind |-> "None", list |-> <<>>]

Events == [group_id : {"", "g1"}, aiocqhttp : BOOLEAN]

Instruction == "<function_instruction>"

\* str(member.get("user_id", ""))
Str(uid) == IF uid = NoUserId THEN "" ELSE <<"0", "1", "2", "3", "4", "5", "6", "7", "8", "9">>[uid + 1]

\* bool() of a value got from a record
Truthy(v) == v # Absent /\ v # ""

(***************************************************************************)
(* inject_at_prompt                                                        *)
(***************************************************************************)
InjectAtPrompt ==
    /\ Len(req.system_prompt) < MaxCalls
    /\ req' = IF event.group_id = "" THEN req
              ELSE [system_prompt |-> Append(req.system_prompt, Instruction)]
    /\ UNCHANGED <<rewriteVars, event, api, ret, raised, calls, turns>>

(***************************************************************************)
(* get_group_members                                                       *)
(***************************************************************************)
Returned(payload, n) == [raised |-> FALSE, ret |-> <<payload>>, calls |-> n]

Raised(message, n) == [raised |-> TRUE, ret |-> <<message>>, calls |-> n]

ErrorPayload(message) == [error |-> message]

IsError(payload) == DOMAIN payload = {"error"}

IsRoster(payload) == DOMAIN payload = {"group_id", "total", "members"}

\* _get_group_members_internal: the value it returns and the calls it made
GetGroupMembersInternal(ev, answer) ==
    IF ev.group_id = "" THEN [value |-> NoAnswer, calls |-> 0]
    ELSE IF answer.kind = "raise" THEN [value |-> NoAnswer, calls |-> 1]
    ELSE [value |-> answer, calls |-> 1]

\* the projection of one raw record, or nothing for a record without user_id
ProcessedMember(member) ==
    IF Str(member.user_id) = "" THEN <<>>
    ELSE <<[user_id |-> Str(member.user_id),
            names |-> (IF Truthy(member.card) THEN <<member.card>> ELSE <<>>)
                      \o (IF Truthy(member.nickname) THEN <<member.nickname>> ELSE <<>>),
            role |-> IF member.role = Absent THEN "member" ELSE member.role]>>

RECURSIVE ProcessedMembers(_)
ProcessedMembers(members) ==
    IF members = <<>> THEN <<>>
    ELSE ProcessedMember(Head(members)) \o ProcessedMembers(Tail(members))

\* the body without the isinstance test
GetGroupMembersBody_any_platform(ev, answer) ==
    IF ev.group_id = ""
    THEN Returned(ErrorPayload("Not a group chat environment."), 0)
    ELSE LET got == GetGroupMembersInternal(ev, answer)
             members_info == got.value IN
         IF members_info.kind = "None" \/ members_info.list = <<>>
         THEN Returned(ErrorPayload("Failed to fetch members (permission denied or network error)."),
                       got.calls)
         ELSE IF \E i \in 1..Len(members_info.list) : members_info.list[i] = Malformed
         THEN Raised("'str' object has no attribute 'get'", got.calls)
         ELSE LET processed_members == ProcessedMembers(members_info.list) IN
              Returned([group_id |-> ev.group_id,
                        total |-> Len(processed_members),
                        members |-> processed_members], got.calls)

\* the body of the try block
GetGroupMembersBody(ev, answer) ==
    IF ev.group_id = ""
    THEN Returned(ErrorPayload("Not a group chat environment."), 0)
    ELSE IF ~ev.aiocqhttp
    THEN Returned(ErrorPayload("Only supports OneBot(aiocqhttp) protocol."), 0)
    ELSE LET got == GetGroupMembersInternal(ev, answer)
             members_info == got.value IN
         IF members_info.kind = "None" \/ members_info.list = <<>>
         THEN Returned(ErrorPayload("Failed to fetch members (permission denied or network error)."),
                       got.calls)
         ELSE IF \E i \in 1..Len(members_info.list) : members_info.list[i] = Malformed
         THEN Raised("'str' object has no attribute 'get'", got.calls)
         ELSE LET processed_members == ProcessedMembers(members_info.list) IN
              Returned([group_id |-> ev.group_id,
                        total |-> Len(processed_members),
                        members |-> processed_members], got.calls)

\* the try block without its except clause
GetGroupMembersOutcome_uncaught(ev, answer) == GetGroupMembersBody(ev, answer)

\* the try block with its except clause
GetGroupMembersOutcome(ev, answer) ==
    LET body == GetGroupMembersBody(ev, answer) IN
    IF body.raised
    THEN Returned(ErrorPayload(body.ret[1]), body.calls)
    ELSE body

GetGroupMembers ==
    /\ turns < MaxCalls
    /\ LET out == GetGroupMembersOutcome(event, api) IN
       /\ ret' = out.ret
       /\ raised' = out.raised
       /\ calls' = out.calls
    /\ turns' = turns + 1
    /\ UNCHANGED <<rewriteVars, event, req, api>>

\* the group on the platform gets one more raw member record to answer with
PlatformMember ==
    /\ turns = 0
    /\ api.kind = "list"
    /\ Len(api.list) < MaxMembers
    /\ \E member \in RawMembers : api' = [api EXCEPT !.list = Append(@, member)]
    /\ UNCHANGED <<rewriteVars, event, req, ret, raised, calls, turns>>

\* the event the hooks and the tool are given, with a reply already on it
InitEvent ==
    /\ event \in Events
    /\ result = MessageEventResult(<<Plain(AtPrefix \o <<"1", "]">>), Image>>)
    /\ pre = result
    /\ runs = 0
    /\ size = 0
    /\ req = [system_prompt |-> <<>>]
    /\ api \in [kind : ApiKinds, list : {<<>>}]
    /\ ret = <<>>
    /\ raised = FALSE
    /\ calls = 0
    /\ turns = 0

NextRoster ==
    \/ PlatformMember
    \/ InjectAtPrompt
    \/ GetGroupMembers

SpecRoster == InitEvent /\ [][NextRoster]_vars

InitRewrite ==
    /\ result = NoResult
    /\ pre = NoResult
    /\ runs = 0
    /\ size = 0

InitRoster ==
    /\ event = [group_id |-> "", aiocqhttp |-> FALSE]
    /\ req = [system_prompt |-> <<>>]
    /\ api = NoAnswer
    /\ ret = <<>>
    /\ raised = FALSE
    /\ calls = 0
    /\ turns = 0

Init == InitRewrite /\ InitRoster

Next ==
    \/ SetResult
    \/ AppendComponent
    \/ AppendText
    \/ ProcessAtTags

Spec == Init /\ [][Next]_vars

(***************************************************************************)
(* The tag grammar, stated without the scanners                            *)
(***************************************************************************)
\* the offset of the first ] at or after offset p + 4, or -1
CloseOf(text, p) ==
    LET closes == {e \in (p + 4)..(Len(text) - 1) : CharAt(text, e) = "]"} IN
    IF closes = {} THEN -1 ELSE CHOOSE e \in closes : \A f \in closes : e <= f

\* offsets a .. b - 1 hold one or more digits
IsDigits(text, a, b) == b > a /\ \A q \in a..(b - 1) : CharAt(text, q) \in Digits

\* a bracket token [at: ... ] opens at offset p
TokenAt(text, p) == PrefixAt(text, p) /\ CloseOf(text, p) # -1

ValidTagStarts(text) ==
    {p \in 0..(Len(text) - 1) : TokenAt(text, p) /\ IsDigits(text, p + 4, CloseOf(text, p))}

InvalidTagStarts(text) ==
    {p \in 0..(Len(text) - 1) : TokenAt(text, p) /\ ~IsDigits(text, p + 4, CloseOf(text, p))}

\* every offset inside an invalid tag
InvalidTagOffsets(text) == UNION {p..CloseOf(text, p) : p \in InvalidTagStarts(text)}

RECURSIVE TagIds(_, _)
\* the IDs of the valid tags that open at the given offsets, left to right
TagIds(text, starts) ==
    IF starts = {} THEN <<>>
    ELSE LET p == CHOOSE q \in starts : \A r \in starts : q <= r IN
         <<Slice(text, p + 4, CloseOf(text, p))>> \o TagIds(text, starts \ {p})

ValidTagIds(text) == TagIds(text, ValidTagStarts(text))

RECURSIVE Without(_, _, _)
\* text from offset p on, without the characters at the given offsets
Without(text, offsets, p) ==
    IF p >= Len(text) THEN <<>>
    ELSE (IF p \in offsets THEN <<>> ELSE <<CharAt(text, p)>>) \o Without(text, offsets, p + 1)

(***************************************************************************)
(* Reading chains                                                          *)
(***************************************************************************)
RECURSIVE AtIds(_)
\* the IDs of the At components of a chain, in order
AtIds(chain) ==
    IF chain = <<>> THEN <<>>
    ELSE (IF Head(chain).type = "At" THEN <<Head(chain).qq>> ELSE <<>>) \o AtIds(Tail(chain))

RECURSIVE OriginalIds(_)
\* the IDs of the valid tags of the texts as given, and of the At components
OriginalIds(chain) ==
    IF chain = <<>> THEN <<>>
    ELSE (CASE Head(chain).type = "Plain" -> ValidTagIds(Head(chain).text)
            [] Head(chain).type = "At" -> <<Head(chain).qq>>
            [] OTHER -> <<>>)
         \o OriginalIds(Tail(chain))

RECURSIVE CleanedIds(_)
\* the IDs of the valid tags of the texts after the invalid tags are deleted
CleanedIds(chain) ==
    IF chain = <<>> THEN <<>>
    ELSE (CASE Head(chain).type = "Plain" -> ValidTagIds(InvalidSub(Head(chain).text))
            [] Head(chain).type = "At" -> <<Head(chain).qq>>
            [] OTHER -> <<>>)
         \o CleanedIds(Tail(chain))

\* every At stands between two Spacers
Flanked(chain) ==
    \A j \in 1..Len(chain) :
        chain[j].type = "At" =>
            /\ j > 1 /\ chain[j - 1] = Spacer
            /\ j < Len(chain) /\ chain[j + 1] = Spacer

RECURSIVE Chars(_)
\* a text as one-character Plain components
Chars(text) == IF text = <<>> THEN <<>> ELSE <<Plain(<<Head(text)>>)>> \o Chars(Tail(text))

IsTriple(chain) ==
    /\ Len(chain) >= 3
    /\ chain[1] = Spacer
    /\ chain[2].type = "At"
    /\ chain[3] = Spacer

RECURSIVE ReadBack(_)
\* a rewritten chain, character by character, each Spacer-At-Spacer read as its tag
ReadBack(chain) ==
    IF chain = <<>> THEN <<>>
    ELSE IF IsTriple(chain)
    THEN Chars(AtPrefix \o chain[2].qq \o <<"]">>) \o ReadBack(SubSeq(chain, 4, Len(chain)))
    ELSE (IF Head(chain).type = "Plain" THEN Chars(Head(chain).text) ELSE <<Head(chain)>>)
         \o ReadBack(Tail(chain))

RECURSIVE Cleaned(_)
\* a given chain, character by character, each text without its invalid tags
Cleaned(chain) ==
    IF chain = <<>> THEN <<>>
    ELSE (IF Head(chain).type = "Plain"
          THEN Chars(InvalidSub(Head(chain).text))
          ELSE <<Head(chain)>>)
         \o Cleaned(Tail(chain))

IsPlainChar(c) == c.type = "Plain"

\* the characters of a chain read by ReadBack or Cleaned
TextOnly(items) == SelectSeq(items, IsPlainChar)

RECURSIVE DeclaredText(_)
\* the texts of a chain without the characters of their invalid tags
DeclaredText(chain) ==
    IF chain = <<>> THEN <<>>
    ELSE (IF Head(chain).type = "Plain"
          THEN Chars(Without(Head(chain).text, InvalidTagOffsets(Head(chain).text), 0))
          ELSE <<>>)
         \o DeclaredText(Tail(chain))

PlainTexts(chain) == {chain[i].text : i \in {k \in 1..Len(chain) : chain[k].type = "Plain"}}

\* the handler ran on a chain with a tag prefix in some text
SlowPath == runs >= 1 /\ pre.present /\ has_tag(pre.chain)

NoTag(text) == ValidTagStarts(text) = {} /\ InvalidTagStarts(text) = {}

\* component i of the given chain stands alone, where it stood, in the rewritten one
KeptAt(i) ==
    \E j \in 1..Len(result.chain) :
        /\ result.chain[j] = pre.chain[i]
        /\ ReadBack(SubSeq(result.chain, 1, j - 1)) = Cleaned(SubSeq(pre.chain, 1, i - 1))
        /\ ReadBack(SubSeq(result.chain, j + 1, Len(result.chain)))
             = Cleaned(SubSeq(pre.chain, i + 1, Len(pre.chain)))

\* a is a subsequence of b
RECURSIVE IsSubsequence(_, _)
IsSubsequence(a, b) ==
    IF a = <<>> THEN TRUE
    ELSE IF b = <<>> THEN FALSE
    ELSE IF Head(a) = Head(b) THEN IsSubsequence(Tail(a), Tail(b))
    ELSE IsSubsequence(a, Tail(b))

(***************************************************************************)
(* Claims                                                                  *)
(***************************************************************************)
\* C1 (as stated): after a run the Mentions of the chain are exactly the valid
\* tags of the texts as given, one Mention per tag with the tag's digits, in
\* order, each between two Spacers.
C1_EveryOriginalTagMentioned ==
    runs >= 1 => AtIds(result.chain) = OriginalIds(pre.chain) /\ Flanked(result.chain)

\* C1 (amended): after a run the Mentions of the chain are exactly the valid
\* tags of the texts after the invalid tags are deleted, one Mention per tag
\* with the tag's digits, in order, each between two Spacers.
C1_EveryCleanedTagMentioned ==
    runs >= 1 => AtIds(result.chain) = CleanedIds(pre.chain) /\ Flanked(result.chain)

\* C1 witness: a text with an invalid tag and a valid tag was rewritten and the
\* valid tag became a Mention.
C1_Witness ==
    /\ runs = 1
    /\ \E t \in PlainTexts(pre.chain) : InvalidTagStarts(t) # {} /\ ValidTagStarts(t) # {}
    /\ AtIds(result.chain) # <<>>

\* C2: after the first run the text of the chain, Mentions read back as tags,
\* is the given text without any character of any invalid tag: every invalid
\* tag is gone from [at: to its ] and nothing was emitted for it.
C2_InvalidTagsDeleted ==
    SlowPath /\ runs = 1 => TextOnly(ReadBack(result.chain)) = DeclaredText(pre.chain)

\* C2 witness: a text with an invalid tag of empty ID and one of non-digit ID
\* was rewritten.
C2_Witness ==
    /\ runs = 1
    /\ \E t \in PlainTexts(pre.chain) :
         /\ \E p \in InvalidTagStarts(t) : CloseOf(t, p) = p + 4
         /\ \E p \in InvalidTagStarts(t) : CloseOf(t, p) > p + 4
    /\ TextOnly(ReadBack(result.chain)) = <<>>

\* C3 (as stated): a second run leaves the chain of the first run as it is.
C3_Idempotent == runs >= 2 => result = pre

\* C4: a run on no result, on an empty chain or on a chain without the tag
\* prefix in any text leaves the result as it was.
C4_IdentityWithoutPrefix ==
    runs >= 1 /\ (\A t \in PlainTexts(pre.chain) : \A p \in 0..Len(t) : ~PrefixAt(t, p))
        => result = pre

\* C4 witness: a chain of several components, an empty text among them and no
\* tag prefix, went through a run.
C4_Witness ==
    /\ runs = 1
    /\ Len(pre.chain) >= 3
    /\ <<>> \in PlainTexts(pre.chain)
    /\ \E t \in PlainTexts(pre.chain) : Len(t) >= 4
    /\ ~has_tag(pre.chain)
    /\ result = pre

\* C5: after the first run the chain, read character by character with each
\* Spacer-Mention-Spacer read as its tag, is the given chain with the invalid
\* tags deleted: the non-Plain components stand unchanged where they stood and
\* the text between them is the cleaned text, in order.
C5_OrderPreserved ==
    runs = 1 => ReadBack(result.chain) = Cleaned(pre.chain)

\* C5 witness: a chain with text on both sides of an Image and a valid tag was
\* rewritten.
C5_Witness ==
    /\ runs = 1
    /\ \E i \in 2..(Len(pre.chain) - 1) :
         /\ pre.chain[i] = Image
         /\ pre.chain[i - 1].type = "Plain" /\ pre.chain[i - 1].text # <<>>
         /\ pre.chain[i + 1].type = "Plain" /\ pre.chain[i + 1].text # <<>>
    /\ AtIds(result.chain) # <<>>

\* C6 (as stated): after a run the chain has no Plain of empty text.
C6_NoEmptyText == runs >= 1 => <<>> \notin PlainTexts(result.chain)

\* C6 (amended): after a run on a chain with the tag prefix in some text the
\* chain has no Plain of empty text.
C6_NoEmptyTextAfterRewrite == SlowPath => <<>> \notin PlainTexts(result.chain)

\* C6 witness: a chain with an empty text and a tag was rewritten.
C6_Witness ==
    /\ SlowPath
    /\ <<>> \in PlainTexts(pre.chain)
    /\ result # pre

\* C7 (as stated): when the first run rewrites the chain, every text without a
\* tag stands in the new chain as one Plain of the same content where it stood.
C7_TagFreeTextKept ==
    SlowPath /\ runs = 1 =>
        \A i \in 1..Len(pre.chain) :
            pre.chain[i].type = "Plain" /\ NoTag(pre.chain[i].text) => KeptAt(i)

\* C7 (amended): when the first run rewrites the chain, every text that is not
\* empty and has no tag stands in the new chain as one Plain of the same
\* content where it stood.
C7_NonEmptyTagFreeTextKept ==
    SlowPath /\ runs = 1 =>
        \A i \in 1..Len(pre.chain) :
            /\ pre.chain[i].type = "Plain"
            /\ pre.chain[i].text # <<>>
            /\ NoTag(pre.chain[i].text)
            => KeptAt(i)

\* C7 witness: a chain with a tag in one text and another text, not empty and
\* without a tag, was rewritten.
C7_Witness ==
    /\ SlowPath /\ runs = 1
    /\ \E i \in 1..Len(pre.chain) :
         /\ pre.chain[i].type = "Plain"
         /\ pre.chain[i].text # <<>>
         /\ NoTag(pre.chain[i].text)
    /\ result # pre

\* C10 (as stated): after the first run every Mention of the chain comes from a
\* valid tag of the texts as given: the IDs of the Mentions, in order, are
\* among the IDs of those tags, in order.
C10_MentionsFromOriginalTags ==
    runs = 1 => IsSubsequence(AtIds(result.chain), OriginalIds(pre.chain))

\* C8: after get_group_members on an event without a group, or on an event
\* that is not of the aiocqhttp platform, the tool returned an error payload
\* and made no call of the member-list API.
C8_NoCallOutsideGroup ==
    turns >= 1 /\ (event.group_id = "" \/ ~event.aiocqhttp)
        => /\ ~raised
           /\ Len(ret) = 1 /\ IsError(ret[1])
           /\ calls = 0

\* C8 witness: the tool ran on an aiocqhttp event without a group while the
\* API had a member to give.
C8_Witness ==
    /\ turns >= 1
    /\ event.group_id = "" /\ event.aiocqhttp
    /\ api.kind = "list" /\ api.list # <<>>
    /\ Len(ret) = 1 /\ IsError(ret[1])
    /\ calls = 0

\* C9: every get_group_members ends with a return and no exception, of an
\* error payload or a roster payload, after at most one call of the API, and
\* leaves the result of the event as it was.
C9_AlwaysReturns ==
    turns >= 1
        => /\ ~raised
           /\ Len(ret) = 1 /\ (IsError(ret[1]) \/ IsRoster(ret[1]))
           /\ calls <= 1
           /\ result = pre

\* C9 witness: the tool ran on a group event of the aiocqhttp platform and the
\* API gave a record that is no dict; the tool returned an error payload
\* after its one call.
C9_Witness ==
    /\ turns >= 1
    /\ event.group_id # "" /\ event.aiocqhttp
    /\ api.kind = "list" /\ \E i \in 1..Len(api.list) : api.list[i] = Malformed
    /\ ~raised /\ IsError(ret[1])
    /\ calls = 1
    /\ result.present

====
